---- MODULE Spec2Model ----
(***************************************************************************)
(* A model of the regex playground's engine (src/js/regex-engine.js):      *)
(* RegexEngine.explain, the hand-written pattern tokenizer; execute /      *)
(* createRegex / findMatches, the match pipeline over the host's native    *)
(* regular-expression engine; and substitute, the replace pipeline.  On   *)
(* top of the engine, the page's controller (src/js/app.js, RegexApp): its *)
(* event handlers, the input-change cycle processRegex, and the status     *)
(* line with its reset timers.                                             *)
(*                                                                         *)
(* Text is a sequence of one-character strings.  Indices into text are     *)
(* 0-based, as in the source; CharAt, Substring and IndexOf follow the     *)
(* host's String methods.                                                  *)
(***************************************************************************)
EXTENDS Integers, Sequences, FiniteSets, TLC

VARIABLES
    op,                   \* the engine method being run: explain / execute / substitute
    pc,                   \* position inside that method
    pattern,              \* argument: the pattern text
    flags,                \* argument: the flags text
    testString,           \* argument: the subject text
    flavor,               \* argument: the flavor hint
    replacement,          \* argument: the replacement template
    i,                    \* explain: the scan cursor
    explanations,         \* explain: the tokens pushed so far
    dropped,              \* explain: positions the scan passed without a token (history)
    html,                 \* explain: the formatted return value
    regex,                \* execute: the compiled expression
    lastIndex,            \* findMatches: globalRegex.lastIndex
    matches,              \* findMatches: the matches pushed so far
    outcome,              \* execute: the returned object or the thrown error
    processedReplacement, \* substitute: the template handed to the native replace
    substResult,          \* substitute: the returned text or the thrown error
    checked,              \* page: the flag characters whose checkbox is checked
    editor,               \* page: what this.testStringEditor is
    substEnabled,         \* page: #enable-substitution is checked
    matchCount,           \* page: #match-count
    matchesList,          \* page: #matches-list
    decorations,          \* page: the highlights the editor shows
    explanationPanel,     \* page: #regex-explanation
    statusMessage,        \* page: #status-message (text and class)
    timers,               \* page: the pending reset timers, by time left
    statusAge,            \* time since the last setStatus call (history)
    lastStatus,           \* what the last setStatus call displayed (history)
    compiledTexts,        \* the texts the last cycle's engine calls compiled (history)
    event                 \* the handler that ran last (history)

appVars == <<checked, editor, substEnabled, matchCount, matchesList, decorations,
             explanationPanel, statusMessage, timers, statusAge, lastStatus,
             compiledTexts, event>>

vars == <<op, pc, pattern, flags, testString, flavor, replacement, i, explanations,
          dropped, html, regex, lastIndex, matches, outcome, processedReplacement, substResult,
          appVars>>

explainVars == <<i, explanations, dropped, html>>
matchVars   == <<regex, lastIndex, matches, outcome>>
substVars   == <<processedReplacement, substResult>>
argVars     == <<pattern, flags, testString, flavor, replacement>>

----------------------------------------------------------------------------
(* Bounds of the model *)

MaxPatternLen == 4

\* The characters enumerated patterns are built from: every character the
\* tokenizer's multi-character cases look at, and one plain literal.
PatternAlphabet == {"a", "\\", "[", "]", "(", ")", "{", "}", "?", "*"}

SeqsUpTo(S, n) == UNION {[1..k -> S] : k \in 0..n}

----------------------------------------------------------------------------
(* The host's String methods, on sequences of characters *)

Min(a, b) == IF a < b THEN a ELSE b
Max(a, b) == IF a > b THEN a ELSE b

Clamp(k, s) == Max(0, Min(k, Len(s)))

\* s[k]: the character at 0-based k, or undefined outside the string
Undefined == "undefined"
CharAt(s, k) == IF k >= 0 /\ k < Len(s) THEN s[k + 1] ELSE Undefined

\* s.substring(a, b): both ends clamped to the string, and swapped when a > b
Substring(s, a, b) ==
    LET lo == Min(Clamp(a, s), Clamp(b, s))
        hi == Max(Clamp(a, s), Clamp(b, s))
    IN SubSeq(s, lo + 1, hi)

\* s.indexOf(c, from): the first position >= from holding c, or -1
IndexOf(s, c, from) ==
    LET hits == {k \in Max(0, from)..(Len(s) - 1) : s[k + 1] = c}
    IN IF hits = {} THEN -1 ELSE CHOOSE k \in hits : \A h \in hits : k <= h

\* s.startsWith(p)
StartsWith(s, p) == Len(s) >= Len(p) /\ SubSeq(s, 1, Len(p)) = p

\* s.includes(c)
Includes(s, c) == \E k \in 1..Len(s) : s[k] = c

RECURSIVE Concat(_)
Concat(ss) == IF ss = <<>> THEN <<>> ELSE Head(ss) \o Concat(Tail(ss))

----------------------------------------------------------------------------
(* RegexEngine.explain: descriptions *)

createExplanation(token, description) == [token |-> token, description |-> description]

EscapeTable(c) ==
    CASE c = "d"  -> "Matches any digit character [0-9]"
      [] c = "D"  -> "Matches any non-digit character"
      [] c = "w"  -> "Matches any word character [a-zA-Z0-9_]"
      [] c = "W"  -> "Matches any non-word character"
      [] c = "s"  -> "Matches any whitespace character"
      [] c = "S"  -> "Matches any non-whitespace character"
      [] c = "b"  -> "Matches a word boundary"
      [] c = "B"  -> "Matches a non-word boundary"
      [] c = "n"  -> "Matches a newline character"
      [] c = "r"  -> "Matches a carriage return"
      [] c = "t"  -> "Matches a tab character"
      [] c = "v"  -> "Matches a vertical tab character"
      [] c = "f"  -> "Matches a form feed character"
      [] c = "0"  -> "Matches a null character"
      [] c = "\\" -> "Matches a backslash literally"
      [] OTHER    -> Undefined

getEscapeExplanation(c) ==
    IF EscapeTable(c) # Undefined
    THEN <<EscapeTable(c)>>
    ELSE <<"Escapes the character", <<c>> >>

getCharClassExplanationKeepCaret(charClass) ==
    IF StartsWith(charClass, <<"[", "^">>)
    THEN <<"Matches any character NOT in the set", Substring(charClass, 1, Len(charClass) - 1)>>
    ELSE <<"Matches any character in the set", Substring(charClass, 1, Len(charClass) - 1)>>

getCharClassExplanation(charClass) ==
    IF StartsWith(charClass, <<"[", "^">>)
    THEN <<"Matches any character NOT in the set", Substring(charClass, 2, Len(charClass) - 1)>>
    ELSE <<"Matches any character in the set", Substring(charClass, 1, Len(charClass) - 1)>>

GroupNameWrongStart(group) ==
    <<"Named capturing group", Substring(group, 2, IndexOf(group, ">", 0))>>

GroupName(group) ==
    <<"Named capturing group", Substring(group, 3, IndexOf(group, ">", 0))>>

getGroupExplanation(group) ==
    IF StartsWith(group, <<"(", "?", ":">>) THEN <<"Non-capturing group">>
    ELSE IF StartsWith(group, <<"(", "?", "=">>) THEN <<"Positive lookahead assertion">>
    ELSE IF StartsWith(group, <<"(", "?", "!">>) THEN <<"Negative lookahead assertion">>
    ELSE IF StartsWith(group, <<"(", "?", "<", "=">>) THEN <<"Positive lookbehind assertion">>
    ELSE IF StartsWith(group, <<"(", "?", "<", "!">>) THEN <<"Negative lookbehind assertion">>
    ELSE IF StartsWith(group, <<"(", "?", "<">>) THEN GroupName(group)
    ELSE <<"Capturing group">>

\* content.split(','): the first two pieces
SplitMin(content) == Substring(content, 0, IndexOf(content, ",", 0))
SplitMax(content) ==
    LET c1 == IndexOf(content, ",", 0)
        c2 == IndexOf(content, ",", c1 + 1)
    IN Substring(content, c1 + 1, IF c2 = -1 THEN Len(content) ELSE c2)

getQuantifierExplanation(quantifier) ==
    LET content == Substring(quantifier, 1, Len(quantifier) - 1)
    IN IF Includes(content, ",")
       THEN IF SplitMax(content) # <<>>
            THEN <<"Matches previous token between min and max times",
                   SplitMin(content), SplitMax(content)>>
            ELSE <<"Matches previous token min or more times", SplitMin(content)>>
       ELSE <<"Matches previous token exactly N times", content>>

FlagNames ==
    << [flag |-> "g", name |-> "global (find all matches)"],
       [flag |-> "i", name |-> "case insensitive"],
       [flag |-> "m", name |-> "multiline (^ and $ match line breaks)"],
       [flag |-> "s", name |-> "single line (. matches newlines)"],
       [flag |-> "u", name |-> "unicode"],
       [flag |-> "y", name |-> "sticky"] >>

\* the names of the flags present, in the fixed order g i m s u y (joined with ", ")
getFlagsExplanation(f) ==
    LET present == SelectSeq(FlagNames, LAMBDA e : Includes(f, e.flag))
    IN [k \in 1..Len(present) |-> present[k].name]

EscapeHtmlChar(c) ==
    CASE c = "&" -> "&amp;"
      [] c = "<" -> "&lt;"
      [] c = ">" -> "&gt;"
      [] OTHER   -> c

escapeHtml(text) == [k \in 1..Len(text) |-> EscapeHtmlChar(text[k])]

formatExplanation(exps) ==
    [k \in 1..Len(exps) |->
        [code |-> escapeHtml(exps[k].token), span |-> exps[k].description]]

----------------------------------------------------------------------------
(* RegexEngine.explain: the scan *)

YearPattern ==
    <<"(", "?", "<", "y", "e", "a", "r", ">", "\\", "d", "{", "4", "}", ")">>

ExamplePatterns ==
    { YearPattern,
      <<"^", "a", ".", "+", "|", "b", "$">>,
      <<"(", "?", ":", "a", ")">>,
      <<"(", "?", "=", "a", ")">>,
      <<"(", "?", "!", "a", ")">>,
      <<"(", "?", "<", "=", "a", ")">>,
      <<"(", "?", "<", "!", "a", ")">>,
      <<"(", "?", "<", "n", ")">>,
      <<"\\", "d", "{", "4", "}">>,
      <<"a", "{", "1", ",", "2", "}">>,
      <<"a", "{", "1", ",", "}">>,
      <<"[", "^", "a", "]", "?", "?">>,
      <<"a", "+", "?">>,
      <<"(", "a", "\\", ")", "(", "b", ")", ")", "c">> }

ExplainPatterns == SeqsUpTo(PatternAlphabet, MaxPatternLen) \cup ExamplePatterns

ExplainFlags == { <<>>, <<"g", "i", "x">> }

FixedChars == {"^", "$", ".", "*", "+", "|"}

FixedDescription(c) ==
    CASE c = "^" -> <<"Asserts position at start of string or line">>
      [] c = "$" -> <<"Asserts position at end of string or line">>
      [] c = "." -> <<"Matches any character (except newline unless s flag is set)">>
      [] c = "*" -> <<"Matches previous token 0 or more times (greedy)">>
      [] c = "+" -> <<"Matches previous token 1 or more times (greedy)">>
      [] c = "|" -> <<"Alternation (OR operator)">>

Push(exps, token, description) == Append(exps, createExplanation(token, description))

Scanning == op = "explain" /\ pc = "scan" /\ i < Len(pattern)

ExplainFrame == UNCHANGED <<op, argVars, matchVars, substVars, appVars>>

\* case '^', '$', '.', '*', '+', '|'
CaseFixed ==
    /\ Scanning
    /\ CharAt(pattern, i) \in FixedChars
    /\ explanations' = Push(explanations, <<CharAt(pattern, i)>>,
                                          FixedDescription(CharAt(pattern, i)))
    /\ i' = i + 1
    /\ UNCHANGED <<pc, dropped, html>>
    /\ ExplainFrame

QuestionDescriptionAfterGreedy(p, k) ==
    IF k > 0 /\ CharAt(p, k - 1) \in {"*", "+"}
    THEN <<"Makes previous quantifier lazy (non-greedy)">>
    ELSE <<"Matches previous token 0 or 1 time">>

QuestionDescription(p, k) ==
    IF k > 0 /\ CharAt(p, k - 1) \in {"*", "+", "?"}
    THEN <<"Makes previous quantifier lazy (non-greedy)">>
    ELSE <<"Matches previous token 0 or 1 time">>

\* case '?'
CaseQuestion ==
    /\ Scanning
    /\ CharAt(pattern, i) = "?"
    /\ explanations' = Push(explanations, <<"?">>, QuestionDescription(pattern, i))
    /\ i' = i + 1
    /\ UNCHANGED <<pc, dropped, html>>
    /\ ExplainFrame

\* case '\\': the cursor after the case
EscapeSkipAlways(p, k) == k + 2

EscapeSkip(p, k) == IF k + 1 < Len(p) THEN k + 2 ELSE k + 1

\* case '\\'
CaseBackslash ==
    /\ Scanning
    /\ CharAt(pattern, i) = "\\"
    /\ IF i + 1 < Len(pattern)
       THEN /\ explanations' = Push(explanations, <<"\\", CharAt(pattern, i + 1)>>,
                                     getEscapeExplanation(CharAt(pattern, i + 1)))
            /\ UNCHANGED dropped
       ELSE /\ dropped' = dropped \cup {i}
            /\ UNCHANGED explanations
    /\ i' = EscapeSkip(pattern, i)
    /\ UNCHANGED <<pc, html>>
    /\ ExplainFrame

CharClassShort(p, k, endBracket) == Substring(p, k, endBracket)

CharClassText(p, k, endBracket) == Substring(p, k, endBracket + 1)

\* case '['
CaseBracket ==
    /\ Scanning
    /\ CharAt(pattern, i) = "["
    /\ LET endBracket == IndexOf(pattern, "]", i)
       IN IF endBracket # -1
          THEN /\ explanations' =
                     Push(explanations, CharClassText(pattern, i, endBracket),
                          getCharClassExplanation(CharClassText(pattern, i, endBracket)))
               /\ i' = endBracket + 1
               /\ UNCHANGED dropped
          ELSE /\ i' = i + 1
               /\ dropped' = dropped \cup {i}
               /\ UNCHANGED explanations
    /\ UNCHANGED <<pc, html>>
    /\ ExplainFrame

\* the inner while loop of case '(': the position after the group
RECURSIVE GroupEndCountingEscaped(_, _, _)
GroupEndCountingEscaped(p, j, depth) ==
    IF j < Len(p) /\ depth > 0
    THEN LET d1 == IF CharAt(p, j) = "(" THEN depth + 1 ELSE depth
             d2 == IF CharAt(p, j) = ")" THEN d1 - 1 ELSE d1
         IN GroupEndCountingEscaped(p, j + 1, d2)
    ELSE j

RECURSIVE GroupEnd(_, _, _)
GroupEnd(p, j, depth) ==
    IF j < Len(p) /\ depth > 0
    THEN LET d1 == IF CharAt(p, j) = "(" /\ CharAt(p, j - 1) # "\\" THEN depth + 1 ELSE depth
             d2 == IF CharAt(p, j) = ")" /\ CharAt(p, j - 1) # "\\" THEN d1 - 1 ELSE d1
         IN GroupEnd(p, j + 1, d2)
    ELSE j

\* case '('
CaseParen ==
    /\ Scanning
    /\ CharAt(pattern, i) = "("
    /\ LET j == GroupEnd(pattern, i + 1, 1)
           group == Substring(pattern, i, j)
       IN /\ explanations' = Push(explanations, group, getGroupExplanation(group))
          /\ i' = j
    /\ UNCHANGED <<pc, dropped, html>>
    /\ ExplainFrame

\* case '{'
CaseBrace ==
    /\ Scanning
    /\ CharAt(pattern, i) = "{"
    /\ LET endBrace == IndexOf(pattern, "}", i)
       IN IF endBrace # -1
          THEN /\ explanations' =
                     Push(explanations, Substring(pattern, i, endBrace + 1),
                          getQuantifierExplanation(Substring(pattern, i, endBrace + 1)))
               /\ i' = endBrace + 1
               /\ UNCHANGED dropped
          ELSE /\ i' = i + 1
               /\ dropped' = dropped \cup {i}
               /\ UNCHANGED explanations
    /\ UNCHANGED <<pc, html>>
    /\ ExplainFrame

\* default
CaseDefault ==
    /\ Scanning
    /\ CharAt(pattern, i) \notin FixedChars \cup {"?", "\\", "[", "(", "{"}
    /\ explanations' = Push(explanations, <<CharAt(pattern, i)>>,
                            <<"Matches the character literally", <<CharAt(pattern, i)>> >>)
    /\ i' = i + 1
    /\ UNCHANGED <<pc, dropped, html>>
    /\ ExplainFrame

WithFlags(exps, f) ==
    IF f # <<>>
    THEN Push(exps, <<"Flags: ">> \o f, getFlagsExplanation(f))
    ELSE exps

\* the loop exit: the flags token and the formatted return value
ExplainReturn ==
    /\ op = "explain" /\ pc = "scan" /\ ~(i < Len(pattern))
    /\ explanations' = WithFlags(explanations, flags)
    /\ html' = formatExplanation(explanations')
    /\ pc' = "done"
    /\ UNCHANGED <<i, dropped>>
    /\ ExplainFrame

NoRegex == [ok |-> FALSE, message |-> <<>>]

NoMatchState ==
    /\ regex = NoRegex
    /\ lastIndex = 0
    /\ matches = <<>>
    /\ outcome = [kind |-> "none"]

NoSubstState ==
    /\ processedReplacement = <<>>
    /\ substResult = [kind |-> "none"]

\* the reset delay of setStatus, in units of 1000 ms
StatusDelay == 3

Status(kind, count, message, class) ==
    [kind |-> kind, count |-> count, message |-> message, class |-> class]

\* the page as loaded, before any handler ran
InitialStatus == Status("initial", 0, <<>>, "")
InitialList == [kind |-> "initial", items |-> <<>>, substitution |-> [shown |-> FALSE, text |-> <<>>]]
InitialPanel == [kind |-> "initial", html |-> <<>>]
NotCalled == [called |-> FALSE, text |-> <<>>]

FreshPage ==
    /\ matchCount = 0
    /\ matchesList = InitialList
    /\ decorations = <<>>
    /\ explanationPanel = InitialPanel
    /\ statusMessage = InitialStatus
    /\ timers = {}
    /\ statusAge = StatusDelay
    /\ lastStatus = InitialStatus
    /\ compiledTexts = [execute |-> NotCalled, substitute |-> NotCalled]
    /\ event = "load"

\* a call of an engine method on its own: no page
NoPage ==
    /\ checked = {}
    /\ editor = "monaco"
    /\ substEnabled = FALSE
    /\ FreshPage

NoExplainState ==
    /\ i = 0
    /\ explanations = <<>>
    /\ dropped = {}
    /\ html = <<>>

InitExplain ==
    /\ op = "explain"
    /\ pc = "scan"
    /\ pattern \in ExplainPatterns
    /\ flags \in ExplainFlags
    /\ testString = <<>>
    /\ flavor = "javascript"
    /\ replacement = <<>>
    /\ NoExplainState
    /\ NoMatchState
    /\ NoSubstState
    /\ NoPage

NextExplain ==
    \/ CaseFixed
    \/ CaseQuestion
    \/ CaseBackslash
    \/ CaseBracket
    \/ CaseParen
    \/ CaseBrace
    \/ CaseDefault
    \/ ExplainReturn

SpecExplain == InitExplain /\ [][NextExplain]_vars

----------------------------------------------------------------------------
(* Properties of explain *)

Explaining == op = "explain"

\* C1: explain is total and terminating over any pattern: the cursor i starts
\* at 0, every loop iteration is possible (no branch raises), increases i by
\* at least 1 and never moves it past pattern.length, and the loop exit is
\* always possible once the cursor reaches the end.
C1_ExplainTotal ==
    /\ (Explaining => i = 0)
    /\ [](Explaining /\ pc # "done" => ENABLED NextExplain)
    /\ [](Explaining => i <= Len(pattern))
    /\ [][Scanning => (i' > i /\ i' <= Len(pattern))]_vars

\* explain has returned for a pattern that ends in a lone backslash, has an
\* unterminated '[' and an unterminated '('
C1_Witness ==
    /\ Explaining /\ pc = "done"
    /\ pattern = <<"(", "[", "\\">>

DropRule(p, k) ==
    \/ CharAt(p, k) = "\\" /\ k = Len(p) - 1
    \/ CharAt(p, k) = "[" /\ IndexOf(p, "]", k) = -1
    \/ CharAt(p, k) = "{" /\ IndexOf(p, "}", k) = -1

TokenTexts(exps) == [k \in 1..Len(exps) |-> exps[k].token]

\* the first n characters of p without the characters at the positions in D
Without(p, n, D) ==
    LET keep == {k \in 0..(n - 1) : k \notin D}
        F[k \in 0..n] ==
            IF k = 0 THEN <<>>
            ELSE IF (k - 1) \in keep THEN F[k - 1] \o <<p[k]>> ELSE F[k - 1]
    IN F[n]

\* C2: the token texts are contiguous substrings of the pattern in order:
\* each scan step either pushes the token pattern[i, i') or pushes nothing,
\* advances by one and drops a character that is a trailing lone backslash,
\* a '[' with no later ']' or a '{' with no later '}'; hence the token texts
\* concatenate to the scanned part of the pattern without the dropped
\* characters, and with flags "" the returned tokens concatenate to the
\* whole pattern without them.
C2_TokensCoverPattern ==
    /\ [](Explaining /\ pc = "scan" =>
            /\ Concat(TokenTexts(explanations)) = Without(pattern, i, dropped)
            /\ \A k \in dropped : k < i /\ DropRule(pattern, k))
    /\ [](Explaining /\ pc = "done" /\ flags = <<>> =>
            /\ Concat(TokenTexts(explanations)) = Without(pattern, Len(pattern), dropped)
            /\ \A k \in dropped : DropRule(pattern, k))
    /\ [][Scanning =>
            \/ /\ Len(explanations') = Len(explanations) + 1
               /\ SubSeq(explanations', 1, Len(explanations)) = explanations
               /\ explanations'[Len(explanations')].token = Substring(pattern, i, i')
               /\ dropped' = dropped
            \/ /\ explanations' = explanations
               /\ i' = i + 1
               /\ dropped' = dropped \cup {i}
               /\ DropRule(pattern, i)]_vars

\* explain has returned two tokens around a dropped '[' and a dropped
\* trailing backslash
C2_Witness ==
    /\ Explaining /\ pc = "done" /\ flags = <<>>
    /\ pattern = <<"a", "[", "a", "\\">>
    /\ dropped = {1, 3}
    /\ Len(explanations) = 2

YearQuery == Explaining /\ pc = "done" /\ pattern = YearPattern /\ flags = <<>>

HasToken(exps, token, description) ==
    \E k \in 1..Len(exps) : exps[k].token = token /\ exps[k].description = description

\* C3 as stated: explain("(?<year>\d{4})", "") includes a token naming the
\* group "year", a token for \d described as the digit-class escape and a
\* token for {4} described as "exactly 4 times".
C3_Original ==
    YearQuery =>
        /\ \E k \in 1..Len(explanations) :
              explanations[k].description = <<"Named capturing group", <<"y", "e", "a", "r">> >>
        /\ HasToken(explanations, <<"\\", "d">>, <<"Matches any digit character [0-9]">>)
        /\ HasToken(explanations, <<"{", "4", "}">>,
                    <<"Matches previous token exactly N times", <<"4">> >>)

\* C3 amended: explain("(?<year>\d{4})", "") returns exactly one token, the
\* whole group text described as the named capturing group "year"; the
\* group's body is not tokenized, so there is no token for \d or for {4}.
C3_YearGroupOnly ==
    YearQuery =>
        explanations =
            << createExplanation(YearPattern,
                                 <<"Named capturing group", <<"y", "e", "a", "r">> >>) >>

C3_Witness == YearQuery /\ Len(explanations) = 1

----------------------------------------------------------------------------
(* The host's regular-expression engine, by its contract                   *)
(*                                                                         *)
(* new RegExp(source, flags) either throws a SyntaxError carrying a        *)
(* diagnostic or yields a compiled expression.  What a compiled expression *)
(* matches is left open: exec may report any match the contract of         *)
(* RegExp.prototype.exec allows from the current lastIndex (or none), so   *)
(* every pattern's behaviour on the subject is among the behaviours.       *)

MaxSubjectLen == 2

SubjectAlphabet == {"a", "b"}

Subjects == SeqsUpTo(SubjectAlphabet, MaxSubjectLen)

Flavors == {"javascript", "pcre", "python", "golang"}

MatchPatterns ==
    { <<"a">>,
      <<"x", "*">>,
      <<"(", "a", ")", "|", "b">>,
      <<"\\", "A", "a", "\\", "Z">>,
      <<"(">>,
      <<"a", ")">>,
      <<"a", "\\">> }

MatchFlags == { <<>>, <<"g">>, <<"y">>, <<"g", "y">>, <<"g", "g">>, <<"x">> }

NativeFlagChars == {"d", "g", "i", "m", "s", "u", "v", "y"}

\* the flags the compiler rejects: an unknown flag or a repeated one
FlagsDiagnostic(f) ==
    IF \/ \E k \in 1..Len(f) : f[k] \notin NativeFlagChars
       \/ \E k, l \in 1..Len(f) : k # l /\ f[k] = f[l]
    THEN "Invalid flags supplied to RegExp constructor"
    ELSE "ok"

\* the patterns the compiler rejects, among those built from literals,
\* escapes, groups and quantifiers
RECURSIVE PatternDiagnostic(_, _, _)
PatternDiagnostic(p, k, depth) ==
    IF k >= Len(p)
    THEN IF depth > 0 THEN "Unterminated group" ELSE "ok"
    ELSE IF CharAt(p, k) = "\\"
    THEN IF k + 1 >= Len(p) THEN "\\ at end of pattern"
         ELSE PatternDiagnostic(p, k + 2, depth)
    ELSE IF CharAt(p, k) = "("
    THEN PatternDiagnostic(p, k + 1, depth + 1)
    ELSE IF CharAt(p, k) = ")"
    THEN IF depth = 0 THEN "Unmatched ')'"
         ELSE PatternDiagnostic(p, k + 1, depth - 1)
    ELSE IF CharAt(p, k) \in {"*", "+", "?"} /\ (k = 0 \/ CharAt(p, k - 1) \in {"(", "|"})
    THEN "Nothing to repeat"
    ELSE PatternDiagnostic(p, k + 1, depth)

\* the number of capturing groups of a pattern
RECURSIVE CountGroups(_, _)
CountGroups(p, k) ==
    IF k >= Len(p) THEN 0
    ELSE IF CharAt(p, k) = "\\" THEN CountGroups(p, k + 2)
    ELSE IF CharAt(p, k) = "(" /\ CharAt(p, k + 1) # "?" THEN 1 + CountGroups(p, k + 1)
    ELSE CountGroups(p, k + 1)

\* new RegExp(source, f)
NativeCompile(source, f) ==
    IF FlagsDiagnostic(f) # "ok"
    THEN [ok |-> FALSE, diagnostic |-> FlagsDiagnostic(f)]
    ELSE IF PatternDiagnostic(source, 0, 0) # "ok"
    THEN [ok |-> FALSE, diagnostic |-> PatternDiagnostic(source, 0, 0)]
    ELSE [ok |-> TRUE, source |-> source, flags |-> f,
          global |-> Includes(f, "g"), sticky |-> Includes(f, "y"),
          nGroups |-> CountGroups(source, 0)]

\* a capture: the captured text, or undefined for a group that did not participate
Unset == [defined |-> FALSE, text |-> <<>>]
Captured(text) == [defined |-> TRUE, text |-> text]

NullMatch == [kind |-> "null"]

\* re.exec(s) with re.lastIndex = last: null, or a match array (index,
\* match[0] = s[index, end), match[1..nGroups]).  The search starts at
\* lastIndex for a global or sticky expression and at 0 otherwise, fails at
\* once when that is past the end, and a sticky expression matches only there.
ExecOutcomes(re, s, last) ==
    LET from == IF re.global \/ re.sticky THEN last ELSE 0
        starts == IF from > Len(s) THEN {}
                  ELSE IF re.sticky THEN {from}
                  ELSE from..Len(s)
    IN {NullMatch} \cup
       UNION { UNION { { [kind |-> "match", index |-> b, end |-> e,
                          text |-> Substring(s, b, e), captures |-> c]
                         : c \in [1..re.nGroups ->
                                    {Unset, Captured(<<>>), Captured(Substring(s, b, e))}] }
                       : e \in b..Len(s) }
               : b \in starts }

\* re.lastIndex after exec returned o
LastIndexAfter(re, last, o) ==
    IF re.global \/ re.sticky
    THEN IF o.kind = "match" THEN o.end ELSE 0
    ELSE last

----------------------------------------------------------------------------
(* RegexEngine.execute, createRegex, findMatches *)

\* pattern.replace(/\\X/g, to), for one escape letter X
RECURSIVE ReplaceEscape(_, _, _, _)
ReplaceEscape(p, k, letter, to) ==
    IF k >= Len(p) THEN <<>>
    ELSE IF CharAt(p, k) = "\\" /\ CharAt(p, k + 1) = letter
    THEN <<to>> \o ReplaceEscape(p, k + 2, letter, to)
    ELSE <<CharAt(p, k)>> \o ReplaceEscape(p, k + 1, letter, to)

convertPCREToJS(p) ==
    ReplaceEscape(ReplaceEscape(ReplaceEscape(p, 0, "A", "^"), 0, "Z", "$"), 0, "z", "$")

convertPythonRewriting(p) == ReplaceEscape(p, 0, "A", "^")

convertPythonToJS(p) == p

convertGoToJS(p) == p

adjustedPattern(p, fl) ==
    CASE fl = "pcre"   -> convertPCREToJS(p)
      [] fl = "python" -> convertPythonToJS(p)
      [] fl = "golang" -> convertGoToJS(p)
      [] OTHER         -> p

\* the message of the error createRegex throws for a rejected pattern
InvalidMessageBare(diagnostic) == <<"Invalid regular expression">>

InvalidMessage(diagnostic) == <<"Invalid regular expression: ", diagnostic>>

createRegex(p, f, fl) ==
    LET compiled == NativeCompile(adjustedPattern(p, fl), f)
    IN IF compiled.ok
       THEN compiled
       ELSE [ok |-> FALSE, message |-> InvalidMessage(compiled.diagnostic)]

\* lines 71-77 and 85-91: match.groups for a match array with these captures
GroupsShort(captures) ==
    IF Len(captures) + 1 > 1
    THEN [assigned |-> TRUE, map |-> [k \in 1..(Len(captures) - 1) |-> captures[k]]]
    ELSE [assigned |-> FALSE, map |-> <<>>]

Groups(captures) ==
    IF Len(captures) + 1 > 1
    THEN [assigned |-> TRUE, map |-> [k \in 1..Len(captures) |-> captures[k]]]
    ELSE [assigned |-> FALSE, map |-> <<>>]

Collected(o) ==
    [index |-> o.index, text |-> o.text, captures |-> o.captures,
     groups |-> Groups(o.captures)]

\* lines 67-69: lastIndex after the zero-width guard
KeepLastIndex(index, last) == last

GuardZeroWidth(index, last) == IF index = last THEN last + 1 ELSE last

Result(ms) ==
    [kind |-> "result", matches |-> ms, pattern |-> pattern, flags |-> flags,
     testString |-> testString, flavor |-> flavor]

Rethrow(message) == [kind |-> "error", message |-> <<"Regex Error: ">> \o message]

MatchFrame == UNCHANGED <<op, argVars, explainVars, substVars, appVars>>

Executing == op = "execute"

\* execute up to the branch of findMatches, or to the catch clause
ExecuteCompile ==
    /\ Executing /\ pc = "start"
    /\ regex' = createRegex(pattern, flags, flavor)
    /\ IF ~regex'.ok
       THEN /\ outcome' = Rethrow(regex'.message)
            /\ pc' = "done"
       ELSE /\ pc' = IF Includes(flags, "g") THEN "global" ELSE "single"
            /\ UNCHANGED outcome
    /\ UNCHANGED <<lastIndex, matches>>
    /\ MatchFrame

\* one iteration of the while loop of the global branch
GlobalIteration ==
    /\ Executing /\ pc = "global"
    /\ LET globalRegex == NativeCompile(regex.source, regex.flags)
       IN \E o \in ExecOutcomes(globalRegex, testString, lastIndex) :
            /\ o.kind = "match"
            /\ lastIndex' = GuardZeroWidth(o.index, LastIndexAfter(globalRegex, lastIndex, o))
            /\ matches' = Append(matches, Collected(o))
    /\ UNCHANGED <<pc, outcome, regex>>
    /\ MatchFrame

\* exec returns null: the loop ends and execute returns
GlobalExit ==
    /\ Executing /\ pc = "global"
    /\ LET globalRegex == NativeCompile(regex.source, regex.flags)
       IN /\ NullMatch \in ExecOutcomes(globalRegex, testString, lastIndex)
          /\ lastIndex' = LastIndexAfter(globalRegex, lastIndex, NullMatch)
    /\ outcome' = Result(matches)
    /\ pc' = "done"
    /\ UNCHANGED <<matches, regex>>
    /\ MatchFrame

\* the single-match branch, and the return of execute
SingleMatch ==
    /\ Executing /\ pc = "single"
    /\ \E o \in ExecOutcomes(regex, testString, 0) :
         /\ matches' = IF o.kind = "match" THEN <<Collected(o)>> ELSE <<>>
         /\ outcome' = Result(matches')
    /\ pc' = "done"
    /\ UNCHANGED <<lastIndex, regex>>
    /\ MatchFrame

InitMatch ==
    /\ op = "execute"
    /\ pc = "start"
    /\ pattern \in MatchPatterns
    /\ flags \in MatchFlags
    /\ testString \in Subjects
    /\ flavor \in Flavors
    /\ replacement = <<>>
    /\ NoExplainState
    /\ NoMatchState
    /\ NoSubstState
    /\ NoPage

NextMatch ==
    \/ ExecuteCompile
    \/ GlobalIteration
    \/ GlobalExit
    \/ SingleMatch

SpecMatch == InitMatch /\ [][NextMatch]_vars

\* execute runs synchronously: a loop that can take a step takes it
SpecMatchFair == SpecMatch /\ WF_vars(GlobalIteration \/ GlobalExit)

----------------------------------------------------------------------------
(* Properties of execute *)

StrictlyIncreasing(ms) ==
    /\ \A k \in 1..(Len(ms) - 1) : ms[k].index < ms[k + 1].index
    /\ \A k, l \in 1..Len(ms) : k # l => ms[k] # ms[l]

\* C4: with a flag set containing 'g', consecutive matches of the collection
\* (while it is built and as returned) have strictly increasing start
\* offsets, zero-width matches included, and no match occurs twice.
C4_StartsIncrease ==
    Executing /\ Includes(flags, "g") =>
        /\ StrictlyIncreasing(matches)
        /\ (outcome.kind = "result" => StrictlyIncreasing(outcome.matches))

\* a returned global collection with a zero-width match followed by a
\* match at the next offset
C4_Witness ==
    /\ Executing /\ pc = "done" /\ Includes(flags, "g")
    /\ outcome.kind = "result"
    /\ Len(outcome.matches) >= 2
    /\ outcome.matches[1].text = <<>>
    /\ outcome.matches[2].index = outcome.matches[1].index + 1

Rejected == ~NativeCompile(adjustedPattern(pattern, flavor), flags).ok

\* C6: when the native compiler rejects the flavor-rewritten pattern with
\* the flags, execute ends by throwing an error whose message contains the
\* compiler's diagnostic; it returns no result object and has collected no
\* match.
C6_CompileErrorSurfaces ==
    Executing /\ pc = "done" /\ Rejected =>
        /\ outcome.kind = "error"
        /\ \E k \in 1..Len(outcome.message) :
              outcome.message[k] = NativeCompile(adjustedPattern(pattern, flavor), flags).diagnostic
        /\ matches = <<>>

\* execute("(", "", "ab", "javascript") has thrown
C6_Witness ==
    /\ Executing /\ pc = "done"
    /\ pattern = <<"(">> /\ flags = <<>> /\ testString = <<"a", "b">>
    /\ flavor = "javascript"
    /\ outcome.kind = "error"

AllCollected ==
    {matches[k] : k \in 1..Len(matches)} \cup
    (IF outcome.kind = "result"
     THEN {outcome.matches[k] : k \in 1..Len(outcome.matches)} ELSE {})

\* C7 as stated: the group mapping of a collected match has a key exactly
\* for the groups that participated in the match; a group that did not
\* participate has no key.
C7_Original ==
    Executing =>
        \A m \in AllCollected :
            Len(m.captures) >= 1 =>
                DOMAIN m.groups.map = {k \in 1..Len(m.captures) : m.captures[k].defined}

\* C7 amended: the group mapping of a collected match of a pattern with n >= 1
\* capture groups has every key 1..n; key k maps to the captured text when
\* group k participated and to undefined when it did not, which differs from
\* a capture of the empty string.  With no capture group no mapping is set.
C7_GroupsMirrorCaptures ==
    Executing =>
        \A m \in AllCollected :
            IF Len(m.captures) >= 1
            THEN /\ m.groups.assigned
                 /\ DOMAIN m.groups.map = 1..Len(m.captures)
                 /\ \A k \in 1..Len(m.captures) :
                      /\ m.groups.map[k] = m.captures[k]
                      /\ (~m.captures[k].defined => m.groups.map[k] # Captured(<<>>))
            ELSE ~m.groups.assigned

\* two collected matches of (a)|b: one whose group captured text, one whose
\* group did not participate
C7_Witness ==
    /\ Executing /\ pc = "done"
    /\ pattern = <<"(", "a", ")", "|", "b">>
    /\ outcome.kind = "result"
    /\ Len(outcome.matches) = 2
    /\ outcome.matches[1].captures = <<Captured(<<"a">>)>>
    /\ outcome.matches[2].captures = <<Unset>>
    /\ outcome.matches[2].groups.map = <<Unset>>

----------------------------------------------------------------------------
(* The host's String.prototype.replace with a compiled expression *)

\* the backtick character (the module's own lexer reserves it)
Backtick == "BACKTICK"

Digits == {"0", "1", "2", "3", "4", "5", "6", "7", "8", "9"}

DigitValue(c) ==
    CASE c = "0" -> 0 [] c = "1" -> 1 [] c = "2" -> 2 [] c = "3" -> 3 [] c = "4" -> 4
      [] c = "5" -> 5 [] c = "6" -> 6 [] c = "7" -> 7 [] c = "8" -> 8 [] c = "9" -> 9

CaptureText(captures, n) == IF captures[n].defined THEN captures[n].text ELSE <<>>

\* GetSubstitution: the replacement template t expanded for the match o of s
RECURSIVE Expand(_, _, _, _)
Expand(t, k, s, o) ==
    LET c1 == CharAt(t, k + 1)
        c2 == CharAt(t, k + 2)
        m  == Len(o.captures)
        nn == IF c1 \in Digits /\ c2 \in Digits THEN 10 * DigitValue(c1) + DigitValue(c2) ELSE 0
        n  == IF c1 \in Digits THEN DigitValue(c1) ELSE 0
    IN IF k >= Len(t) THEN <<>>
       ELSE IF CharAt(t, k) # "$" THEN <<CharAt(t, k)>> \o Expand(t, k + 1, s, o)
       ELSE IF c1 = "$" THEN <<"$">> \o Expand(t, k + 2, s, o)
       ELSE IF c1 = "&" THEN o.text \o Expand(t, k + 2, s, o)
       ELSE IF c1 = Backtick THEN Substring(s, 0, o.index) \o Expand(t, k + 2, s, o)
       ELSE IF c1 = "'" THEN Substring(s, o.end, Len(s)) \o Expand(t, k + 2, s, o)
       ELSE IF nn >= 1 /\ nn <= m THEN CaptureText(o.captures, nn) \o Expand(t, k + 3, s, o)
       ELSE IF n >= 1 /\ n <= m THEN CaptureText(o.captures, n) \o Expand(t, k + 2, s, o)
       ELSE <<"$">> \o Expand(t, k + 1, s, o)

\* the match sequences a global replace may collect from lastIndex = last:
\* exec until null, stepping over an empty match
RECURSIVE MatchChains(_, _, _)
MatchChains(re, s, last) ==
    {<<>>} \cup
    UNION { { <<o>> \o rest :
                rest \in MatchChains(re, s, IF o.end = o.index THEN o.end + 1 ELSE o.end) }
            : o \in ExecOutcomes(re, s, last) \ {NullMatch} }

\* s with every match of the chain replaced by the expanded template
RECURSIVE Assemble(_, _, _, _)
Assemble(s, t, chain, from) ==
    IF chain = <<>> THEN Substring(s, from, Len(s))
    ELSE Substring(s, from, Head(chain).index) \o Expand(t, 0, s, Head(chain))
         \o Assemble(s, t, Tail(chain), Head(chain).end)

\* s.replace(re, t): every match replaced for a global expression, the
\* first one otherwise
ReplaceResults(re, s, t) ==
    IF re.global
    THEN { Assemble(s, t, chain, 0) : chain \in MatchChains(re, s, 0) }
    ELSE { IF o.kind = "match" THEN Assemble(s, t, <<o>>, 0) ELSE s
           : o \in ExecOutcomes(re, s, 0) }

----------------------------------------------------------------------------
(* RegexEngine.substitute *)

MaxTemplateLen == 2

\* the characters enumerated templates are built from: the native
\* back-reference sequences; ExampleTemplates adds braces and plain text
TemplateAlphabet == {"$", "&", Backtick, "'", "1"}

ExampleTemplates ==
    { <<"$", "{", "1", "}">>,
      <<"x", "$", Backtick, "x">>,
      <<"x", "$", "'", "x">>,
      <<"[", "$", "1", "1", "]">> }

Templates == SeqsUpTo(TemplateAlphabet, MaxTemplateLen) \cup ExampleTemplates

SubstPatterns ==
    { <<"a">>,
      <<"(", "a", ")", "|", "b">>,
      <<"\\", "A", "a">>,
      <<"(">> }

SubstFlags == { <<>>, <<"g">>, <<"y">>, <<"x">> }

\* the end of the run of digits starting at k
RECURSIVE DigitsEnd(_, _)
DigitsEnd(t, k) == IF CharAt(t, k) \in Digits THEN DigitsEnd(t, k + 1) ELSE k

\* .replace(/\$(\d+)/g, (match, num) => '$' + num)
RECURSIVE NumberedGroups(_, _)
NumberedGroups(t, k) ==
    IF k >= Len(t) THEN <<>>
    ELSE IF CharAt(t, k) = "$" /\ CharAt(t, k + 1) \in Digits
    THEN <<"$">> \o Substring(t, k + 1, DigitsEnd(t, k + 1))
         \o NumberedGroups(t, DigitsEnd(t, k + 1))
    ELSE <<CharAt(t, k)>> \o NumberedGroups(t, k + 1)

\* .replace(/\$\{(\d+)\}/g, (match, num) => '$' + num)
RECURSIVE BracketNotation(_, _)
BracketNotation(t, k) ==
    IF k >= Len(t) THEN <<>>
    ELSE IF /\ CharAt(t, k) = "$" /\ CharAt(t, k + 1) = "{"
            /\ CharAt(t, k + 2) \in Digits
            /\ CharAt(t, DigitsEnd(t, k + 2)) = "}"
    THEN <<"$">> \o Substring(t, k + 2, DigitsEnd(t, k + 2))
         \o BracketNotation(t, DigitsEnd(t, k + 2) + 1)
    ELSE <<CharAt(t, k)>> \o BracketNotation(t, k + 1)

\* what the host inserts for the replacement strings '$&' (the matched
\* text), '$BACKTICK' (the text before the match) and "$'" (the text after
\* it), for a match of two characters at k
Inserted(t, k, special) ==
    CASE special = "&"      -> Substring(t, k, k + 2)
      [] special = Backtick -> Substring(t, 0, k)
      [] special = "'"      -> Substring(t, k + 2, Len(t))

\* .replace(/\$X/g, '$Y') for X and Y among the ampersand, the backtick and the quote
RECURSIVE ReplaceSpecial(_, _, _, _)
ReplaceSpecial(t, k, X, Y) ==
    IF k >= Len(t) THEN <<>>
    ELSE IF CharAt(t, k) = "$" /\ CharAt(t, k + 1) = X
    THEN Inserted(t, k, Y) \o ReplaceSpecial(t, k + 2, X, Y)
    ELSE <<CharAt(t, k)>> \o ReplaceSpecial(t, k + 1, X, Y)

\* .replace(/\$&/g, '$&')
FullMatchAsBefore(t) == ReplaceSpecial(t, 0, "&", Backtick)

FullMatch(t) == ReplaceSpecial(t, 0, "&", "&")

\* .replace(/\$BACKTICK/g, '$BACKTICK')
BeforeMatch(t) == ReplaceSpecial(t, 0, Backtick, Backtick)

\* .replace(/\$'/g, "$'")
AfterMatch(t) == ReplaceSpecial(t, 0, "'", "'")

\* lines 104-109
ProcessReplacement(t) ==
    AfterMatch(BeforeMatch(FullMatch(BracketNotation(NumberedGroups(t, 0), 0))))

Returned(text) == [kind |-> "returned", value |-> text]

\* the catch clause of substitute
FailEmpty(text) == Returned(<<>>)

FailSoft(text) == Returned(text)

SubstFrame == UNCHANGED <<op, argVars, explainVars, lastIndex, matches, outcome, appVars>>

Substituting == op = "substitute"

\* substitute up to the native replace, or through the catch clause
SubstituteCompile ==
    /\ Substituting /\ pc = "start"
    /\ regex' = NativeCompile(pattern, flags)
    /\ IF regex'.ok
       THEN /\ processedReplacement' = ProcessReplacement(replacement)
            /\ pc' = "replace"
            /\ UNCHANGED substResult
       ELSE /\ substResult' = FailSoft(testString)
            /\ pc' = "done"
            /\ UNCHANGED processedReplacement
    /\ SubstFrame

\* testString.replace(regex, processedReplacement), and the return
SubstituteReplace ==
    /\ Substituting /\ pc = "replace"
    /\ \E text \in ReplaceResults(regex, testString, processedReplacement) :
         substResult' = Returned(text)
    /\ pc' = "done"
    /\ UNCHANGED <<regex, processedReplacement>>
    /\ SubstFrame

InitSubst ==
    /\ op = "substitute"
    /\ pc = "start"
    /\ pattern \in SubstPatterns
    /\ flags \in SubstFlags
    /\ testString \in Subjects
    /\ flavor = "javascript"
    /\ replacement \in Templates
    /\ NoExplainState
    /\ NoMatchState
    /\ NoSubstState
    /\ NoPage

NextSubst ==
    \/ SubstituteCompile
    \/ SubstituteReplace

SpecSubst == InitSubst /\ [][NextSubst]_vars

----------------------------------------------------------------------------
(* The engine as a whole: one call of one method *)

Init == InitExplain \/ InitMatch \/ InitSubst

Next == NextExplain \/ NextMatch \/ NextSubst

Spec == Init /\ [][Next]_vars

----------------------------------------------------------------------------
(* Properties of substitute *)

\* C8: substitute never raises, and whenever compiling pattern/flags fails
\* it returns the subject text exactly as given, whatever the template.
C8_SubstituteFailsSoft ==
    Substituting /\ pc = "done" =>
        /\ substResult.kind = "returned"
        /\ (~NativeCompile(pattern, flags).ok => substResult.value = testString)

\* substitute("(", "", "ab", "$1") has returned
C8_Witness ==
    /\ Substituting /\ pc = "done"
    /\ pattern = <<"(">> /\ flags = <<>>
    /\ testString = <<"a", "b">> /\ replacement = <<"$", "1">>
    /\ substResult = Returned(<<"a", "b">>)

\* C9 as stated: the pre-processing of the replacement template is the
\* identity: the template handed to the native replace is the template given.
C9_Original ==
    Substituting /\ pc \in {"replace", "done"} /\ regex.ok =>
        processedReplacement = replacement

\* C10: for a pattern/flags pair that compiles with non-global flags,
\* substitute(pattern, flags, subject, "$&") returns the subject unchanged,
\* whether nothing matched or the first match was replaced by itself.
C10_FullMatchRoundTrip ==
    Substituting /\ pc = "done" /\ regex.ok /\ ~Includes(flags, "g")
        /\ replacement = <<"$", "&">> =>
            substResult = Returned(testString)

\* a compiled non-global substitute of "$&" over a non-empty subject has returned
C10_Witness ==
    /\ Substituting /\ pc = "done" /\ regex.ok /\ ~Includes(flags, "g")
    /\ replacement = <<"$", "&">>
    /\ pattern = <<"(", "a", ")", "|", "b">>
    /\ testString = <<"a", "b">>
    /\ substResult.kind = "returned"

----------------------------------------------------------------------------
(* execute over patterns that carry the escapes the flavor rewriting looks for *)

MaxFlavorPatternLen == 3

FlavorAlphabet == {"\\", "A", "Z", "z", "a"}

FlavorPatterns == SeqsUpTo(FlavorAlphabet, MaxFlavorPatternLen)

InitFlavor ==
    /\ op = "execute"
    /\ pc = "start"
    /\ pattern \in FlavorPatterns
    /\ flags \in { <<>>, <<"g">> }
    /\ testString = <<"a">>
    /\ flavor \in Flavors
    /\ replacement = <<>>
    /\ NoExplainState
    /\ NoMatchState
    /\ NoSubstState
    /\ NoPage

SpecFlavor == InitFlavor /\ [][NextMatch]_vars

\* p with every \A replaced by ^ and every \Z or \z by $, in one pass
RECURSIVE PcreText(_, _)
PcreText(p, k) ==
    IF k >= Len(p) THEN <<>>
    ELSE IF CharAt(p, k) = "\\" /\ CharAt(p, k + 1) = "A"
    THEN <<"^">> \o PcreText(p, k + 2)
    ELSE IF CharAt(p, k) = "\\" /\ CharAt(p, k + 1) \in {"Z", "z"}
    THEN <<"$">> \o PcreText(p, k + 2)
    ELSE <<CharAt(p, k)>> \o PcreText(p, k + 1)

EffectiveText == IF flavor = "pcre" THEN PcreText(pattern, 0) ELSE pattern

\* C11: the pattern text execute compiles is the input pattern unchanged for
\* the flavors javascript, python and golang, and for pcre the input with
\* every \A replaced by ^, every \Z or \z replaced by $ and nothing else
\* changed: a compiled expression has that text as its source, and a
\* rejection carries the compiler's diagnostic for that text.
C11_FlavorRewriting ==
    Executing /\ pc # "start" =>
        IF regex.ok
        THEN regex.source = EffectiveText
        ELSE /\ ~NativeCompile(EffectiveText, flags).ok
             /\ regex.message = InvalidMessage(NativeCompile(EffectiveText, flags).diagnostic)

\* execute has compiled \Aa for python unchanged
C11_Witness ==
    /\ Executing /\ pc = "done" /\ flavor = "python"
    /\ pattern = <<"\\", "A", "a">>
    /\ regex.ok /\ regex.source = pattern

\* execute has compiled \Zz for pcre as $z
C11_WitnessPcre ==
    /\ Executing /\ pc = "done" /\ flavor = "pcre"
    /\ pattern = <<"\\", "Z", "z">>
    /\ regex.ok /\ regex.source = <<"$", "z">>

----------------------------------------------------------------------------
(* The engine's methods as the page calls them: one call, start to return *)

\* the tokens explain pushes from cursor k on
RECURSIVE ExplainFrom(_, _)
ExplainFrom(p, k) ==
    LET c == CharAt(p, k)
        endBracket == IndexOf(p, "]", k)
        endBrace == IndexOf(p, "}", k)
        j == GroupEnd(p, k + 1, 1)
    IN IF ~(k < Len(p)) THEN <<>>
       ELSE IF c \in FixedChars
       THEN <<createExplanation(<<c>>, FixedDescription(c))>> \o ExplainFrom(p, k + 1)
       ELSE IF c = "?"
       THEN <<createExplanation(<<"?">>, QuestionDescription(p, k))>> \o ExplainFrom(p, k + 1)
       ELSE IF c = "\\"
       THEN (IF k + 1 < Len(p)
             THEN <<createExplanation(<<"\\", CharAt(p, k + 1)>>,
                                      getEscapeExplanation(CharAt(p, k + 1)))>>
             ELSE <<>>) \o ExplainFrom(p, EscapeSkip(p, k))
       ELSE IF c = "["
       THEN IF endBracket # -1
            THEN <<createExplanation(CharClassText(p, k, endBracket),
                                     getCharClassExplanation(CharClassText(p, k, endBracket)))>>
                 \o ExplainFrom(p, endBracket + 1)
            ELSE ExplainFrom(p, k + 1)
       ELSE IF c = "("
       THEN <<createExplanation(Substring(p, k, j), getGroupExplanation(Substring(p, k, j)))>>
            \o ExplainFrom(p, j)
       ELSE IF c = "{"
       THEN IF endBrace # -1
            THEN <<createExplanation(Substring(p, k, endBrace + 1),
                                     getQuantifierExplanation(Substring(p, k, endBrace + 1)))>>
                 \o ExplainFrom(p, endBrace + 1)
            ELSE ExplainFrom(p, k + 1)
       ELSE <<createExplanation(<<c>>, <<"Matches the character literally", <<c>> >>)>>
            \o ExplainFrom(p, k + 1)

\* explain(p, f)
explain(p, f) == formatExplanation(WithFlags(ExplainFrom(p, 0), f))

ResultOf(ms, p, f, s, fl) ==
    [kind |-> "result", matches |-> ms, pattern |-> p, flags |-> f,
     testString |-> s, flavor |-> fl]

\* findMatches(re, s, f): the collections it may return
findMatches(re, s, f) ==
    IF Includes(f, "g")
    THEN { [k \in 1..Len(chain) |-> Collected(chain[k])]
           : chain \in MatchChains(NativeCompile(re.source, re.flags), s, 0) }
    ELSE { IF o.kind = "match" THEN <<Collected(o)>> ELSE <<>>
           : o \in ExecOutcomes(re, s, 0) }

\* execute(p, f, s, fl): the objects it may return, or the error it throws
execute(p, f, s, fl) ==
    LET re == createRegex(p, f, fl)
    IN IF re.ok
       THEN { ResultOf(ms, p, f, s, fl) : ms \in findMatches(re, s, f) }
       ELSE { Rethrow(re.message) }

\* the pattern text substitute hands to the compiler
SubstitutePatternRewritten(p) == convertPCREToJS(p)

SubstitutePattern(p) == p

\* substitute(p, f, s, t): the texts it may return
substitute(p, f, s, t) ==
    LET re == NativeCompile(SubstitutePattern(p), f)
    IN IF re.ok
       THEN { Returned(text) : text \in ReplaceResults(re, s, ProcessReplacement(t)) }
       ELSE { FailSoft(s) }

----------------------------------------------------------------------------
(* RegexApp: the displays *)

Editors == {"monaco", "fallback"}

Hidden == [shown |-> FALSE, text |-> <<>>]
Shown(text) == [shown |-> TRUE, text |-> text]

\* RegexApp.escapeHtml
pageEscapeHtml(text) == [k \in 1..Len(text) |-> EscapeHtmlChar(text[k])]

\* renderGroups: one line for every key whose value is not undefined
renderGroups(groups) ==
    LET entries == [k \in 1..Len(groups.map) |-> [key |-> k, value |-> groups.map[k]]]
        defined == SelectSeq(entries, LAMBDA e : e.value.defined)
    IN [k \in 1..Len(defined) |->
          [key |-> defined[k].key, code |-> pageEscapeHtml(defined[k].value.text)]]

MatchItem(m, number) ==
    [number |-> number, from |-> m.index, to |-> m.index + Len(m.text),
     code |-> pageEscapeHtml(m.text),
     groups |-> IF m.groups.assigned THEN renderGroups(m.groups) ELSE <<>>]

\* displayResults: the content of #matches-list
DisplayedList(ms, substitution) ==
    IF Len(ms) = 0
    THEN [kind |-> "noneFound", items |-> <<>>, substitution |-> Hidden]
    ELSE [kind |-> "matches", items |-> [k \in 1..Len(ms) |-> MatchItem(ms[k], k)],
          substitution |-> substitution]

\* clearResults: the content of #matches-list
ClearedList == [kind |-> "cleared", items |-> <<>>, substitution |-> Hidden]

\* highlightMatches with the Monaco editor: one decoration for every match
Highlights(ms) ==
    [k \in 1..Len(ms) |->
        [from |-> ms[k].index, to |-> ms[k].index + Len(ms[k].text), hover |-> ms[k].text]]

\* highlightMatches: the fallback object has deltaDecorations, so the early
\* return is not taken, and it has no getModel, so the call raises
HighlightThrows(ed) == ed = "fallback"

NotAFunction == <<"this.testStringEditor.getModel is not a function">>

ErrorStatus(message) == Status("error", 0, <<"Fehler: ">> \o message, "status-error")
FoundStatus(n) == Status("found", n, <<>>, "status-success")
ReadyStatus == Status("ready", 0, <<>>, "")

Compiled(re) == [called |-> TRUE, text |-> IF re.ok THEN re.source ELSE <<>>]

\* setStatus(message, type)
setStatus(st) ==
    /\ statusMessage' = st
    /\ timers' = timers \cup {StatusDelay}
    /\ statusAge' = 0
    /\ lastStatus' = st

StatusUntouched == UNCHANGED <<statusMessage, timers, statusAge, lastStatus>>

\* clearResults
clearResults ==
    /\ matchCount' = 0
    /\ matchesList' = ClearedList
    /\ decorations' = IF editor = "monaco" THEN <<>> ELSE decorations

\* generateExplanation
generateExplanation(p, f) == explanationPanel' = [kind |-> "html", html |-> explain(p, f)]

\* processRegex, with the values it reads from the page
processRegex(p, f, s, fl, enabled, template) ==
    IF p = <<>>
    THEN /\ clearResults
         /\ StatusUntouched
         /\ UNCHANGED explanationPanel
         /\ compiledTexts' = [execute |-> NotCalled, substitute |-> NotCalled]
    ELSE \E result \in execute(p, f, s, fl) :
           IF result.kind = "error"
           THEN /\ setStatus(ErrorStatus(result.message))
                /\ clearResults
                /\ UNCHANGED explanationPanel
                /\ compiledTexts' = [execute |-> Compiled(createRegex(p, f, fl)),
                                     substitute |-> NotCalled]
           ELSE \E substitution \in
                     IF enabled
                     THEN { Shown(r.value) : r \in substitute(p, f, s, template) }
                     ELSE { Hidden } :
                  /\ compiledTexts' =
                        [execute |-> Compiled(createRegex(p, f, fl)),
                         substitute |-> IF enabled
                                        THEN Compiled(NativeCompile(SubstitutePattern(p), f))
                                        ELSE NotCalled]
                  /\ IF HighlightThrows(editor)
                     THEN /\ setStatus(ErrorStatus(NotAFunction))
                          /\ clearResults
                          /\ UNCHANGED explanationPanel
                     ELSE /\ matchCount' = Len(result.matches)
                          /\ matchesList' = DisplayedList(result.matches, substitution)
                          /\ decorations' = Highlights(result.matches)
                          /\ generateExplanation(p, f)
                          /\ setStatus(FoundStatus(Len(result.matches)))

----------------------------------------------------------------------------
(* RegexApp: the event handlers *)

\* the handlers do not run inside an engine call
PageFrame == UNCHANGED <<op, pc, explainVars, matchVars, substVars, editor>>

\* 'input' on #regex-input
EditPattern(P) ==
    /\ op = "page"
    /\ \E p \in P \ {pattern} :
         /\ pattern' = p
         /\ processRegex(p, flags, testString, flavor, substEnabled, replacement)
    /\ event' = "regex-input"
    /\ UNCHANGED <<flags, testString, flavor, replacement, checked, substEnabled>>
    /\ PageFrame

\* a content change of the subject editor (Monaco or the fallback textarea)
EditSubject(S) ==
    /\ op = "page"
    /\ \E s \in S \ {testString} :
         /\ testString' = s
         /\ processRegex(pattern, flags, s, flavor, substEnabled, replacement)
    /\ event' = "test-string"
    /\ UNCHANGED <<pattern, flags, flavor, replacement, checked, substEnabled>>
    /\ PageFrame

\* 'change' on #regex-flavor
SelectFlavor ==
    /\ op = "page"
    /\ \E fl \in Flavors \ {flavor} :
         /\ flavor' = fl
         /\ processRegex(pattern, flags, testString, fl, substEnabled, replacement)
    /\ event' = "regex-flavor"
    /\ UNCHANGED <<pattern, flags, testString, replacement, checked, substEnabled>>
    /\ PageFrame

\* 'change' on #enable-substitution
ToggleSubstitution ==
    /\ op = "page"
    /\ substEnabled' = ~substEnabled
    /\ IF substEnabled'
       THEN processRegex(pattern, flags, testString, flavor, TRUE, replacement)
       ELSE UNCHANGED <<matchCount, matchesList, decorations, explanationPanel,
                        statusMessage, timers, statusAge, lastStatus, compiledTexts>>
    /\ event' = "enable-substitution"
    /\ UNCHANGED <<argVars, checked>>
    /\ PageFrame

\* 'input' on #substitution-input
EditSubstitution(T) ==
    /\ op = "page"
    /\ \E t \in T \ {replacement} :
         /\ replacement' = t
         /\ IF substEnabled
            THEN processRegex(pattern, flags, testString, flavor, TRUE, t)
            ELSE UNCHANGED <<matchCount, matchesList, decorations, explanationPanel,
                             statusMessage, timers, statusAge, lastStatus, compiledTexts>>
    /\ event' = "substitution-input"
    /\ UNCHANGED <<pattern, flags, testString, flavor, checked, substEnabled>>
    /\ PageFrame

\* the page after init(), with nothing saved: the fields hold some text,
\* the displays are as loaded
PageLoaded(P, F, S, T) ==
    /\ op = "page"
    /\ pc = "idle"
    /\ pattern \in P
    /\ flags \in F
    /\ testString \in S
    /\ flavor \in Flavors
    /\ replacement \in T
    /\ NoExplainState
    /\ NoMatchState
    /\ NoSubstState
    /\ editor \in Editors
    /\ substEnabled \in BOOLEAN
    /\ FreshPage

----------------------------------------------------------------------------
(* RegexApp: the flags field and its checkboxes *)

\* the checkboxes of the page in document order, by the flag each controls
CheckboxFlags == <<"g", "i", "m", "s", "u", "y">>

Boxes == {CheckboxFlags[k] : k \in 1..Len(CheckboxFlags)}

\* updateFlagsFromCheckboxes: flags.join('') over the checked boxes
JoinCheckedFirst(chk) ==
    LET joined == SelectSeq(CheckboxFlags, LAMBDA c : c \in chk)
    IN IF joined = <<>> THEN joined ELSE <<Head(joined)>>

JoinChecked(chk) == SelectSeq(CheckboxFlags, LAMBDA c : c \in chk)

\* updateFlagsAndProcess: checkbox.checked = flags.includes(checkbox.dataset.flag)
CheckedFromText(f) == {c \in Boxes : Includes(f, c)}

\* 'input' on #regex-flags: updateFlagsAndProcess
EditFlags(F) ==
    /\ op = "page"
    /\ \E f \in F \ {flags} :
         /\ flags' = f
         /\ checked' = CheckedFromText(f)
         /\ processRegex(pattern, f, testString, flavor, substEnabled, replacement)
    /\ event' = "regex-flags"
    /\ UNCHANGED <<pattern, testString, flavor, replacement, substEnabled>>
    /\ PageFrame

\* 'change' on a flag checkbox: updateFlagsFromCheckboxes
ToggleCheckbox ==
    /\ op = "page"
    /\ \E c \in Boxes :
         /\ checked' = IF c \in checked THEN checked \ {c} ELSE checked \cup {c}
         /\ flags' = JoinChecked(checked')
         /\ processRegex(pattern, flags', testString, flavor, substEnabled, replacement)
    /\ event' = "flag-checkbox"
    /\ UNCHANGED <<pattern, testString, flavor, replacement, substEnabled>>
    /\ PageFrame

----------------------------------------------------------------------------
(* Input-change cycles *)

CyclePatterns ==
    { <<>>, <<"a">>, <<"(">>, <<"\\", "A", "a">> }

CycleFlags == { <<>>, <<"g">> }

CycleSubjects == { <<>>, <<"a">> }

CycleTemplates == { <<"x">>, <<"$", "1">> }

InitCycle ==
    /\ PageLoaded(CyclePatterns, CycleFlags, CycleSubjects, CycleTemplates)
    /\ checked = CheckedFromText(flags)

NextCycle ==
    \/ EditPattern(CyclePatterns)
    \/ EditSubject(CycleSubjects)
    \/ SelectFlavor
    \/ ToggleSubstitution
    \/ EditSubstitution(CycleTemplates)

SpecCycle == InitCycle /\ [][NextCycle]_vars

\* the last handler ran processRegex, so the displays are those of a cycle
\* over the current fields
CycleEnded ==
    \/ event \in {"regex-input", "test-string", "regex-flavor", "regex-flags", "flag-checkbox"}
    \/ event \in {"enable-substitution", "substitution-input"} /\ substEnabled

PatternCompiles == createRegex(pattern, flags, flavor).ok

\* C12 as stated: a cycle over a pattern the compiler rejects ends with the
\* status showing the compiler's message and with every result display
\* cleared: count 0, empty match list without substitution output, no
\* highlights, and no explanation left in the explanation panel.
C12_Original ==
    CycleEnded /\ pattern # <<>> /\ ~PatternCompiles =>
        /\ statusMessage.kind = "error"
        /\ \E k \in 1..Len(statusMessage.message) :
              statusMessage.message[k] =
                  NativeCompile(adjustedPattern(pattern, flavor), flags).diagnostic
        /\ matchCount = 0
        /\ matchesList = ClearedList
        /\ decorations = <<>>
        /\ explanationPanel.kind # "html"

\* C17 as stated: a cycle over a non-empty pattern that compiles ends with
\* the match list showing the matches and the status reporting their count
\* as success, with either editor; an error status is shown only when the
\* compilation failed.
C17_Original ==
    CycleEnded /\ pattern # <<>> =>
        /\ PatternCompiles =>
              /\ statusMessage.kind = "found"
              /\ statusMessage.class = "status-success"
              /\ statusMessage.count = matchCount
              /\ matchesList.kind \in {"matches", "noneFound"}
              /\ Len(matchesList.items) = matchCount
        /\ statusMessage.kind = "error" => ~PatternCompiles

----------------------------------------------------------------------------
(* The flags field and the checkboxes under edits and toggles *)

MaxFlagsLen == 2

\* two flags with a checkbox, and a character without one
FlagsAlphabet == {"g", "i", "x"}

FlagsTexts == SeqsUpTo(FlagsAlphabet, MaxFlagsLen)

\* what the page's markup sets for the field and the boxes is left open
InitFlags ==
    /\ PageLoaded({<<"a">>}, FlagsTexts, {<<>>}, {<<"x">>})
    /\ checked \in SUBSET Boxes
    /\ flavor = "javascript"
    /\ ~substEnabled

NextFlags ==
    \/ EditFlags(FlagsTexts)
    \/ ToggleCheckbox

SpecFlags == InitFlags /\ [][NextFlags]_vars

InSync == \A c \in Boxes : c \in checked <=> (\E k \in 1..Len(flags) : flags[k] = c)

CheckedInOrder ==
    Concat([k \in 1..Len(CheckboxFlags) |->
               IF CheckboxFlags[k] \in checked THEN <<CheckboxFlags[k]>> ELSE <<>>])

\* C13: after a flags-text edit or a checkbox toggle every checkbox is
\* checked if and only if its flag character occurs in the flags text; a
\* toggle leaves the text equal to the checked boxes' characters concatenated
\* in document order, an edit leaves exactly the boxes checked whose
\* character occurs in the text; and no handler breaks the agreement.
C13_FlagsInSync ==
    /\ [](event \in {"regex-flags", "flag-checkbox"} => InSync)
    /\ [](event = "flag-checkbox" => flags = CheckedInOrder)
    /\ [](event = "regex-flags" =>
            checked = {c \in Boxes : \E k \in 1..Len(flags) : flags[k] = c})
    /\ [][InSync => InSync']_vars

\* the text "xi" was edited in and then the box g toggled on: the text is "gi"
C13_Witness ==
    /\ event = "flag-checkbox"
    /\ checked = {"g", "i"}
    /\ flags = <<"g", "i">>
    /\ statusMessage.kind \in {"found", "error"}

----------------------------------------------------------------------------
(* Properties of explain: the group, character-class and '?' cases *)

Last(seq) == seq[Len(seq)]

\* the scan has just pushed a token: the character before the cursor was not
\* dropped, so the last token ends at the cursor
JustPushed ==
    /\ Explaining /\ pc = "scan"
    /\ explanations # <<>>
    /\ i > 0 /\ (i - 1) \notin dropped

LastStart == i - Len(Last(explanations).token)

\* a '(' or ')' at k that is not immediately preceded by a backslash
Counted(p, k, c) == CharAt(p, k) = c /\ CharAt(p, k - 1) # "\\"

\* the nesting depth after position k of a group opened at position from
DepthAt(p, from, k) ==
    1 + Cardinality({m \in (from + 1)..k : Counted(p, m, "(")})
      - Cardinality({m \in (from + 1)..k : Counted(p, m, ")")})

\* the position after the group opened at from: one past the first position
\* where the depth is back at 0, or the end of the pattern
GroupSpanEnd(p, from) ==
    LET closes == {k \in (from + 1)..(Len(p) - 1) : DepthAt(p, from, k) = 0}
    IN IF closes = {} THEN Len(p)
       ELSE 1 + CHOOSE k \in closes : \A h \in closes : k <= h

GroupKinds ==
    {"Non-capturing group", "Positive lookahead assertion", "Negative lookahead assertion",
     "Positive lookbehind assertion", "Negative lookbehind assertion",
     "Named capturing group", "Capturing group"}

\* C14: a '(' at the cursor makes explain push exactly one token, a group
\* token, whose text runs from the cursor through the first later position
\* where the nesting depth (counted over '(' and ')' not immediately preceded
\* by a backslash) is back at 0, or to the end of the pattern when it never
\* is; the cursor resumes right after the token.
C14_GroupSpan ==
    /\ [][Scanning /\ CharAt(pattern, i) = "(" =>
            /\ i' = GroupSpanEnd(pattern, i)
            /\ Len(explanations') = Len(explanations) + 1
            /\ SubSeq(explanations', 1, Len(explanations)) = explanations
            /\ Last(explanations').token = Substring(pattern, i, GroupSpanEnd(pattern, i))
            /\ Last(explanations').description[1] \in GroupKinds]_vars
    /\ [](JustPushed /\ CharAt(pattern, LastStart) = "(" /\ Last(explanations).token[1] = "(" =>
            /\ i = GroupSpanEnd(pattern, LastStart)
            /\ Last(explanations).description[1] \in GroupKinds)

\* the scan of (a\)(b))c has pushed the group (a\)(b)) and stands before c
C14_Witness ==
    /\ JustPushed
    /\ pattern = <<"(", "a", "\\", ")", "(", "b", ")", ")", "c">>
    /\ i = 8
    /\ explanations = << createExplanation(SubSeq(pattern, 1, 8), <<"Capturing group">>) >>

\* the scan of ((a has pushed the unterminated group as one token to the end
C14_WitnessOpen ==
    /\ JustPushed
    /\ pattern = <<"(", "(", "a">>
    /\ i = 3
    /\ Last(explanations).token = pattern

\* a character-class token: it starts with '[' and was pushed at a '['
ClassPushed ==
    /\ JustPushed
    /\ Last(explanations).token[1] = "["
    /\ CharAt(pattern, LastStart) = "["
    /\ Substring(pattern, LastStart, i) = Last(explanations).token

\* the ']' after position from: all of them, and those not preceded by a backslash
ClosesAfter(p, from) == {k \in (from + 1)..(Len(p) - 1) : CharAt(p, k) = "]"}
UnescapedClosesAfter(p, from) == {k \in ClosesAfter(p, from) : CharAt(p, k - 1) # "\\"}

Least(S) == CHOOSE k \in S : \A h \in S : k <= h

ClassDescription(token) ==
    IF Len(token) >= 2 /\ token[2] = "^"
    THEN <<"Matches any character NOT in the set", SubSeq(token, 3, Len(token) - 1)>>
    ELSE <<"Matches any character in the set", SubSeq(token, 2, Len(token) - 1)>>

\* C15 as stated: a character-class token runs from its '[' to the next ']'
\* that is not preceded by a backslash.
C15_Original ==
    ClassPushed /\ UnescapedClosesAfter(pattern, LastStart) # {} =>
        i = Least(UnescapedClosesAfter(pattern, LastStart)) + 1

\* C15 amended: a '[' at the cursor with a later ']' makes explain push one
\* character-class token running from the cursor to the first ']' after it,
\* whether or not a backslash precedes that ']'; the token is described as
\* negated exactly when it starts with '[^', with the text between the
\* delimiters as its member set.  With no ']' after the cursor, nothing is
\* pushed and the cursor advances by exactly 1.
C15_ClassSpan ==
    /\ [][Scanning /\ CharAt(pattern, i) = "[" =>
            IF ClosesAfter(pattern, i) # {}
            THEN /\ i' = Least(ClosesAfter(pattern, i)) + 1
                 /\ Len(explanations') = Len(explanations) + 1
                 /\ SubSeq(explanations', 1, Len(explanations)) = explanations
                 /\ Last(explanations').token = Substring(pattern, i, i')
                 /\ Last(explanations').description =
                        ClassDescription(Substring(pattern, i, i'))
            ELSE /\ i' = i + 1
                 /\ explanations' = explanations]_vars
    /\ [](ClassPushed =>
            /\ i = Least(ClosesAfter(pattern, LastStart)) + 1
            /\ Last(explanations).description = ClassDescription(Last(explanations).token))

\* the scan of [\]] has pushed the class [\] and stands before the last ']'
C15_Witness ==
    /\ ClassPushed
    /\ pattern = <<"[", "\\", "]", "]">>
    /\ i = 3
    /\ Last(explanations).description =
           <<"Matches any character in the set", <<"\\">> >>

\* C16: a '?' at the cursor is pushed as one token described as making the
\* previous quantifier lazy exactly when the cursor is past 0 and the raw
\* pattern character before it is '*', '+' or '?', and as "0 or 1 time"
\* otherwise, whatever token was pushed before it.
C16_LazyByRawCharacter ==
    /\ [][Scanning /\ CharAt(pattern, i) = "?" =>
            /\ i' = i + 1
            /\ explanations' =
                 Append(explanations,
                        createExplanation(<<"?">>,
                            IF i > 0 /\ pattern[i] \in {"*", "+", "?"}
                            THEN <<"Makes previous quantifier lazy (non-greedy)">>
                            ELSE <<"Matches previous token 0 or 1 time">>))]_vars
    /\ [](JustPushed /\ Last(explanations).token = <<"?">> =>
            (Last(explanations).description = <<"Makes previous quantifier lazy (non-greedy)">>
                <=> (i > 1 /\ pattern[i - 1] \in {"*", "+", "?"})))

\* the scan of \?? has pushed the escape \? and then the '?' as lazy
C16_Witness ==
    /\ JustPushed
    /\ pattern = <<"\\", "?", "?">>
    /\ i = 3
    /\ Len(explanations) = 2
    /\ explanations[1].token = <<"\\", "?">>
    /\ explanations[2] =
           createExplanation(<<"?">>, <<"Makes previous quantifier lazy (non-greedy)">>)

----------------------------------------------------------------------------
(* Properties of a cycle with substitution *)

\* p has an occurrence of \A, \Z or \z
HasPcreEscape(p) ==
    \E k \in 1..(Len(p) - 1) : p[k] = "\\" /\ p[k + 1] \in {"A", "Z", "z"}

\* C18: whenever a cycle called substitute, substitute compiled the raw
\* pattern text of the field, for every flavor, while execute compiled the
\* flavor-rewritten text; so with flavor pcre and a pattern containing \A,
\* \Z or \z the two texts differ, and with javascript, python or golang
\* they are the same text.
C18_SubstituteIgnoresFlavor ==
    compiledTexts.substitute.called =>
        /\ compiledTexts.execute.called
        /\ compiledTexts.substitute.text = pattern
        /\ compiledTexts.execute.text = EffectiveText
        /\ (flavor = "pcre" /\ HasPcreEscape(pattern) =>
                compiledTexts.substitute.text # compiledTexts.execute.text)
        /\ (flavor # "pcre" =>
                compiledTexts.substitute.text = compiledTexts.execute.text)

\* a pcre cycle over \Aa with substitution on: the matches come from ^a, the
\* displayed substitution from \Aa
C18_Witness ==
    /\ CycleEnded /\ substEnabled
    /\ flavor = "pcre" /\ pattern = <<"\\", "A", "a">>
    /\ compiledTexts.execute.text = <<"^", "a">>
    /\ compiledTexts.substitute.text = <<"\\", "A", "a">>
    /\ matchesList.substitution.shown

\* with the Monaco editor a cycle over a compiling pattern ends in success
MonacoCycleSucceeds == editor = "monaco" => C17_Original

----------------------------------------------------------------------------
(* The status line and its reset timers *)

\* time passes by one unit; a timer that is due stays due until it is run
Tick ==
    /\ op = "page"
    /\ timers' = {Max(0, t - 1) : t \in timers}
    /\ statusAge' = Min(StatusDelay, statusAge + 1)
    /\ UNCHANGED <<argVars, checked, substEnabled, matchCount, matchesList, decorations,
                   explanationPanel, statusMessage, lastStatus, compiledTexts, event>>
    /\ PageFrame

\* the callback of a setTimeout of setStatus runs
TimerFire ==
    /\ op = "page"
    /\ 0 \in timers
    /\ timers' = timers \ {0}
    /\ statusMessage' = ReadyStatus
    /\ UNCHANGED <<argVars, checked, substEnabled, matchCount, matchesList, decorations,
                   explanationPanel, statusAge, lastStatus, compiledTexts, event>>
    /\ PageFrame

StatusPatterns == { <<"a">>, <<"(">> }

InitStatus ==
    /\ PageLoaded(StatusPatterns, {<<>>}, {<<>>}, {<<"x">>})
    /\ checked = {}
    /\ flavor = "javascript"
    /\ ~substEnabled

NextStatus ==
    \/ EditPattern(StatusPatterns)
    \/ Tick
    \/ TimerFire

SpecStatus == InitStatus /\ [][NextStatus]_vars

\* C19 as stated: until 3000 ms have passed since the last setStatus call,
\* the status line shows what that call displayed (only a later setStatus
\* call replaces it).
C19_Original ==
    op = "page" /\ statusAge < StatusDelay => statusMessage = lastStatus

====
